---- MODULE Spec2Model ----
(***************************************************************************)
(* A model of cyverse-de/vaulter: the orchestration functions of package   *)
(* vaulter (mounts.go, vaulter.go, certs.go) and the earlier revisions of  *)
(* the same logic kept in the repository, run against a Vault server that  *)
(* is reached through the narrow interfaces (Mounter, MountLister,         *)
(* Tokener, ClientCreator, MountWriter, MountReader).                      *)
(*                                                                         *)
(* Go values are modelled with their dynamic type: an interface{} value is *)
(* a record [t |-> type, v |-> text]; a nil error is the value Nil and any *)
(* other error is its message; a map is a function over its keys and a nil *)
(* map is told apart from an empty one by a flag next to it.               *)
(***************************************************************************)
EXTENDS Integers, Sequences, FiniteSets, TLC

VARIABLES
    mounts,     \* server: mounted path -> the MountInput it was mounted with
    uses,       \* server: child token -> requests it is still good for
    issued,     \* server: number of child tokens created so far
    store,      \* server: logical path -> data map written there
    certs,      \* server: number of certificates issued by the pki backend
    last,       \* the last operation called, what it returned and the
                \* primitive calls it made, in order
    written,    \* token -> the content WriteToCubbyhole last wrote with it
    scn,        \* the end-to-end run: its position and what its steps returned
    conc,       \* concurrent callers: the clients in memory and, for each
                \* caller, the call it is in and the client it holds
    setup,      \* for each caller, its run of main's check-then-mount sequence
    api         \* the VaultAPI: the client and the config stored in it

vars == <<mounts, uses, issued, store, certs, last, written, scn, conc, setup, api>>

-----------------------------------------------------------------------------
(* Bounds of the exploration. *)

MaxTokens == 2      \* child tokens the server hands out
MaxCerts == 2       \* certificates the pki backend issues

-----------------------------------------------------------------------------
(* Go values. *)

Nil == "<nil>"                          \* the nil error

Str(s) == [t |-> "string", v |-> s]     \* an interface{} holding a string
FormatBool(b) == IF b THEN "true" ELSE "false"
Bool(b) == [t |-> "bool", v |-> FormatBool(b)]  \* an interface{} holding a bool
Null == [t |-> "nil", v |-> ""]         \* an interface{} holding nil

EmptyMap == [k \in {} |-> Null]

\* *vault.Secret: nil, or a secret whose Data is nil, or one with a Data map;
\* Auth is the authorization block (nil, or one carrying ClientToken).
NilSecret == [isNil |-> TRUE, hasData |-> FALSE, data |-> EmptyMap,
              hasAuth |-> FALSE, clientToken |-> ""]
Secret(d) == [isNil |-> FALSE, hasData |-> TRUE, data |-> d,
              hasAuth |-> FALSE, clientToken |-> ""]
BareSecret == [isNil |-> FALSE, hasData |-> FALSE, data |-> EmptyMap,
               hasAuth |-> FALSE, clientToken |-> ""]
AuthSecret(tok) == [isNil |-> FALSE, hasData |-> FALSE, data |-> EmptyMap,
                    hasAuth |-> TRUE, clientToken |-> tok]

\* strings.HasSuffix
HasSuffix(s, suffix) ==
    /\ Len(s) >= Len(suffix)
    /\ SubSeq(s, Len(s) - Len(suffix) + 1, Len(s)) = suffix

\* strings.HasPrefix
HasPrefix(s, prefix) ==
    /\ Len(s) >= Len(prefix)
    /\ SubSeq(s, 1, Len(prefix)) = prefix

-----------------------------------------------------------------------------
(* The record of an operation: its name, the revision of the code that ran, *)
(* its arguments, what it returned (or that it panicked), the primitive     *)
(* calls it made in order, and what the server answered to its request.     *)

NoToken == ""       \* a client no token was bound to
RootToken == "root" \* the parent token of the VaultAPI's own client

Call(name, tok, path, data, n) ==
    [prim |-> name, tok |-> tok, path |-> path, data |-> data, n |-> n]

NoResp == [secret |-> NilSecret, err |-> Nil, mode |-> "none"]

\* The operation ended at NewClient's error nc.err and asked the server nothing.
ClientFailure(nc) == [secret |-> NilSecret, err |-> nc.err, mode |-> "client"]

\* A return of a value and an error, a return of a secret and an error, and
\* a run-time panic.
Return(ret, err) ==
    [ret |-> ret, out |-> NilSecret, err |-> err, status |-> "returned"]
ReturnSecret(secret, err) ==
    [ret |-> Null, out |-> secret, err |-> err, status |-> "returned"]
Panic == [ret |-> Null, out |-> NilSecret, err |-> Nil, status |-> "panic"]

\* A return of a map (or of a pointer to a structure, as the map of its
\* fields) and an error; hasMap is false for a nil map or pointer.
ReturnMap(hasMap, d, err) ==
    [ret |-> Null, out |-> IF hasMap THEN Secret(d) ELSE NilSecret,
     err |-> err, status |-> "returned"]

Done(op, rev, args, res, calls, resp) ==
    [op |-> op, rev |-> rev, args |-> args, ret |-> res.ret, out |-> res.out,
     err |-> res.err, status |-> res.status, calls |-> calls, resp |-> resp]

NoOp == [op |-> "none", rev |-> "", args |-> <<>>, ret |-> Null, out |-> NilSecret,
         err |-> Nil, status |-> "returned", calls |-> <<>>, resp |-> NoResp]

\* A SetToken that leaves the client's token as it was.
SetTokenDropped(client, t) == client

\* SetToken(client, t)
SetToken(client, t) == [client EXCEPT !.tok = t]

\* What NewClient can answer: a client, carrying the token of the process
\* environment if there is one, or an error.
ClientErrors == {"client error"}
NewClientResults ==
    {[err |-> Nil, tok |-> t] : t \in {NoToken, RootToken}}
    \cup {[err |-> e, tok |-> NoToken] : e \in ClientErrors}

-----------------------------------------------------------------------------
(* The server's tokens. *)

TokenName(i) == "tok" \o ToString(i)
ChildTokens == {TokenName(i) : i \in 1..MaxTokens}
Tokens == {RootToken} \cup ChildTokens

\* The parent token is good for any number of requests, a child token while
\* it has uses left.
TokenValid(tok) == tok = RootToken \/ (tok \in ChildTokens /\ uses[tok] > 0)

\* The uses left after one request made with tok.
Spend(tok) ==
    IF tok \in ChildTokens /\ uses[tok] > 0
    THEN [uses EXCEPT ![tok] = @ - 1]
    ELSE uses

-----------------------------------------------------------------------------
(* Mounts. *)

MountKeys == {"cubbyhole/", "pki/", "cubbyhole2/", "pki2/"}
QueryPaths == MountKeys \cup {"cubbyhole", "pki"}

\* MountConfiguration values the callers pass.
CubbyholeConfig == [Type |-> "cubbyhole",
                    Description |-> "A cubbyhole mount for iRODS configs",
                    DefaultLeaseTTL |-> "", MaxLeaseTTL |-> ""]
PKIConfig == [Type |-> "pki",
              Description |-> "A pki backend for HTCondor jobs",
              DefaultLeaseTTL |-> "", MaxLeaseTTL |-> ""]

LeasedConfig == [Type |-> "pki", Description |-> "A pki backend with lease bounds",
                 DefaultLeaseTTL |-> "1h", MaxLeaseTTL |-> "2h"]

\* The listing of the stub lister when it misses.
MissListing == [p \in {"cubbyhole2/", "pki2/"} |->
                   IF p = "cubbyhole2/" THEN CubbyholeConfig ELSE PKIConfig]

NoMounts == [p \in {} |-> CubbyholeConfig]

\* What ListMounts can answer: the server's listing, or an error, with or
\* without a listing next to it.
ListErrors == {"test error"}
ListMountsResults ==
    {[mounts |-> mounts, err |-> Nil]}
    \cup {[mounts |-> NoMounts, err |-> e] : e \in ListErrors}
    \cup {[mounts |-> mounts, err |-> e] : e \in ListErrors}

\* A loop that takes a key for the path when it only starts with it.
hasPathPrefix(listing, path) == \E m \in DOMAIN listing : HasPrefix(m, path)

\* A loop that also takes a key for the path when it is the path followed
\* by a separator.
hasPathNormalised(listing, path) ==
    \E m \in DOMAIN listing : m = path \/ m = path \o "/"

\* The loop of IsMounted: hasPath is set when a key equals path.
hasPath(listing, path) == \E m \in DOMAIN listing : m = path

\* IsMounted without the test of ListMounts' error before the loop.
IsMountedUnchecked(lm, path) == Return(Bool(hasPath(lm.mounts, path)), lm.err)

\* IsMounted / isBackendMounted, on the answer lm of ListMounts.
IsMounted(lm, path) ==
    IF lm.err # Nil
    THEN Return(Bool(FALSE), lm.err)
    ELSE Return(Bool(hasPath(lm.mounts, path)), Nil)

\* What the server answers to a mount request: the path is taken, or the
\* backend is mounted there; or the request fails on the way.
MountErrors == {"mount error"}
MountResults(path, mi) ==
    {IF path \in DOMAIN mounts
     THEN [err |-> "existing mount at " \o path, mounts |-> mounts, mode |-> "ok"]
     ELSE [err |-> Nil,
           mounts |-> [p \in DOMAIN mounts \cup {path} |->
                          IF p = path THEN mi ELSE mounts[p]],
           mode |-> "ok"]}
    \cup {[err |-> e, mounts |-> mounts, mode |-> "fail"] : e \in MountErrors}

\* A MountInput without the lease bounds of the configuration.
MountInputNoLease(c) ==
    [Type |-> c.Type, Description |-> c.Description,
     DefaultLeaseTTL |-> "", MaxLeaseTTL |-> ""]

\* The *vault.MountInput that Mount builds from the MountConfiguration c.
MountInput(c) ==
    [Type |-> c.Type, Description |-> c.Description,
     DefaultLeaseTTL |-> c.DefaultLeaseTTL, MaxLeaseTTL |-> c.MaxLeaseTTL]

\* A structure of strings as the map of its fields.
Fields(r) == [k \in DOMAIN r |-> Str(r[k])]

\* The vault.MountConfigInput that TuneMount builds.
MountConfigInput(defaultTTL, maxTTL) ==
    [DefaultLeaseTTL |-> defaultTTL, MaxLeaseTTL |-> maxTTL]

\* What the server answers to MountConfig(path): the lease bounds of the
\* mount, or that there is no such mount; or the request fails on the way.
ConfigErrors == {"config error"}
MountConfigResults(path) ==
    {IF path \in DOMAIN mounts
     THEN [hasOut |-> TRUE,
           out |-> Fields(MountConfigInput(mounts[path].DefaultLeaseTTL,
                                           mounts[path].MaxLeaseTTL)),
           err |-> Nil, mode |-> "ok"]
     ELSE [hasOut |-> FALSE, out |-> EmptyMap,
           err |-> "no mount at " \o path, mode |-> "ok"]}
    \cup {[hasOut |-> FALSE, out |-> EmptyMap, err |-> e, mode |-> "fail"] :
            e \in ConfigErrors}

\* What the server answers to TuneMount(path, in): the lease bounds of the
\* mount are set, or there is no such mount; or the request fails on the way.
TuneMountResults(path, in) ==
    {IF path \in DOMAIN mounts
     THEN [err |-> Nil, mode |-> "ok",
           mounts |-> [mounts EXCEPT ![path].DefaultLeaseTTL = in.DefaultLeaseTTL,
                                     ![path].MaxLeaseTTL = in.MaxLeaseTTL]]
     ELSE [err |-> "no mount at " \o path, mode |-> "ok", mounts |-> mounts]}
    \cup {[err |-> e, mounts |-> mounts, mode |-> "fail"] : e \in ConfigErrors}

\* MountConfig, on the answer mc of the MountConfigGetter.
MountConfig(mc) == ReturnMap(mc.hasOut, mc.out, mc.err)

\* TuneMount, on the answer tm of the MountTuner.
TuneMount(tm) == Return(Null, tm.err)

-----------------------------------------------------------------------------
(* Child tokens. *)

\* A request for a token good for one request only.
TokenCreateRequestOneUse == [NumUses |-> 1]

\* A request for a token good for three requests.
TokenCreateRequestThreeUses == [NumUses |-> 3]

\* The request of ChildToken.
TokenCreateRequest == [NumUses |-> 2]

\* What CreateToken can answer to the request opts: a new token good for
\* opts.NumUses requests, or an error, or a secret without an authorization
\* block, or one with an empty token, or nothing at all.
TokenErrors == {"test error"}
CreateTokenResults(opts) ==
    (IF issued < MaxTokens
     THEN {[secret |-> AuthSecret(TokenName(issued + 1)), err |-> Nil, mode |-> "ok",
            uses |-> [uses EXCEPT ![TokenName(issued + 1)] = opts.NumUses],
            issued |-> issued + 1]}
     ELSE {})
    \cup {[secret |-> NilSecret, err |-> e, mode |-> "fail",
           uses |-> uses, issued |-> issued] : e \in TokenErrors}
    \cup {[secret |-> s, err |-> Nil, mode |-> "other",
           uses |-> uses, issued |-> issued] :
             s \in {BareSecret, AuthSecret(""), NilSecret}}

\* ChildToken without the test of an empty ClientToken.
ChildTokenNoEmptyCheck(ct) ==
    IF ct.err # Nil THEN Return(Str(""), ct.err)
    ELSE IF ct.secret.isNil THEN Panic
    ELSE IF ~ct.secret.hasAuth THEN Return(Str(""), "SecretAuth was nil")
    ELSE Return(Str(ct.secret.clientToken), Nil)

\* ChildToken, on the answer ct of CreateToken.  secret.Auth of a nil secret
\* is a nil pointer dereference.
ChildToken(ct) ==
    IF ct.err # Nil THEN Return(Str(""), ct.err)
    ELSE IF ct.secret.isNil THEN Panic
    ELSE IF ~ct.secret.hasAuth THEN Return(Str(""), "SecretAuth was nil")
    ELSE IF ct.secret.clientToken = "" THEN Return(Str(""), "ClientToken was empty")
    ELSE Return(Str(ct.secret.clientToken), Nil)

-----------------------------------------------------------------------------
(* Logical writes and reads. *)

WriteErrors == {"write error"}
ReadErrors == {"read error"}
CAMissing == "backend must be configured with a CA certificate/key"
IssueErrors ==
    {CAMissing,
     "Code: 400. Errors: * " \o CAMissing,
     CAMissing \o " first",
     "write error"}

ConfigKey == "irods-config"

\* Put data at path.
Stored(path, data) ==
    [p \in DOMAIN store \cup {path} |-> IF p = path THEN data ELSE store[p]]

\* What the server answers to a write made by a client carrying tok: under
\* pki/issue/ a certificate is issued or the backend refuses; elsewhere the
\* data is stored at the path when the token is good; or the write fails on
\* the way.
WriteResults(tok, path, data) ==
    IF HasPrefix(path, "pki/issue/")
    THEN (IF certs < MaxCerts
          THEN {[secret |-> Secret(data), err |-> Nil, mode |-> "ok",
                 store |-> store, uses |-> uses, certs |-> certs + 1]}
          ELSE {})
         \cup {[secret |-> NilSecret, err |-> e, mode |-> "fail",
                store |-> store, uses |-> uses, certs |-> certs] : e \in IssueErrors}
    ELSE {IF TokenValid(tok)
          THEN [secret |-> BareSecret, err |-> Nil, mode |-> "ok",
                store |-> Stored(path, data), uses |-> Spend(tok), certs |-> certs]
          ELSE [secret |-> NilSecret, err |-> "permission denied", mode |-> "ok",
                store |-> store, uses |-> uses, certs |-> certs]}
         \cup {[secret |-> NilSecret, err |-> e, mode |-> "fail",
                store |-> store, uses |-> uses, certs |-> certs] : e \in WriteErrors}

\* Secrets a reader may be handed that nothing of this package wrote.
OtherSecrets(path) ==
    IF HasPrefix(path, "pki/roles/")
    THEN {BareSecret, Secret(EmptyMap)}
         \cup {Secret([k \in {"allowed_domains"} |-> Str(d)]) : d \in {"foo.com"}}
         \cup {Secret([k \in {"allow_subdomains"} |-> Bool(b)]) : b \in BOOLEAN}
         \cup {Secret([k \in {"allowed_domains", "allow_subdomains"} |->
                          IF k = "allowed_domains" THEN Str(d) ELSE v]) :
                 d \in {"foo.com", "bar.com"},
                 v \in {Bool(TRUE), Bool(FALSE), Str("true"), Str("false"), Null}}
    ELSE {BareSecret, Secret(EmptyMap),
          Secret([k \in {ConfigKey} |-> Null]),
          Secret([k \in {ConfigKey} |-> Bool(TRUE)]),
          Secret([k \in {"other"} |-> Str("foo")])}

\* What the server answers to a read made by a client carrying tok: when the
\* token is good, what is stored at the path (no secret when nothing is) or
\* some other secret; a refusal when it is not; or the read fails on the way.
ReadResults(tok, path) ==
    {IF TokenValid(tok)
     THEN [secret |-> IF path \in DOMAIN store THEN Secret(store[path]) ELSE NilSecret,
           err |-> Nil, mode |-> "ok", uses |-> Spend(tok)]
     ELSE [secret |-> NilSecret, err |-> "permission denied", mode |-> "ok",
           uses |-> uses]}
    \cup (IF TokenValid(tok)
          THEN {[secret |-> s, err |-> Nil, mode |-> "other", uses |-> Spend(tok)] :
                  s \in OtherSecrets(path)}
          ELSE {})
    \cup {[secret |-> NilSecret, err |-> e, mode |-> "fail", uses |-> uses] :
            e \in ReadErrors}

Resp(r) == [secret |-> r.secret, err |-> r.err, mode |-> r.mode]

\* WriteMount that does not look at the error of the write.
WriteMountWriteUnchecked(nc, wr) ==
    IF nc.err # Nil THEN Return(Null, nc.err)
    ELSE Return(Null, Nil)

\* WriteMount, on the answer nc of NewClient and wr of Write.
WriteMount(nc, wr) ==
    IF nc.err # Nil THEN Return(Null, nc.err)
    ELSE IF wr.err # Nil THEN Return(Null, wr.err)
    ELSE Return(Null, Nil)

\* ReadMount without the test of the secret's data.
ReadMountDataUnchecked(nc, rd) ==
    IF nc.err # Nil THEN ReturnMap(FALSE, EmptyMap, nc.err)
    ELSE IF rd.err # Nil THEN ReturnMap(FALSE, EmptyMap, rd.err)
    ELSE IF rd.secret.isNil THEN ReturnMap(FALSE, EmptyMap, "secret is nil")
    ELSE ReturnMap(rd.secret.hasData, rd.secret.data, Nil)

\* ReadMount, on the answer nc of NewClient and rd of Read.
ReadMount(nc, rd) ==
    IF nc.err # Nil THEN ReturnMap(FALSE, EmptyMap, nc.err)
    ELSE IF rd.err # Nil THEN ReturnMap(FALSE, EmptyMap, rd.err)
    ELSE IF rd.secret.isNil THEN ReturnMap(FALSE, EmptyMap, "secret is nil")
    ELSE IF ~rd.secret.hasData THEN ReturnMap(FALSE, EmptyMap, "data is nil")
    ELSE ReturnMap(TRUE, rd.secret.data, Nil)

-----------------------------------------------------------------------------
(* The cubbyhole. *)

\* One path for the secrets of all tokens.
CubbyholePathShared(token) == "cubbyhole/irods-config"

\* fmt.Sprintf("cubbyhole/%s", token)
CubbyholePath(token) == "cubbyhole/" \o token

\* The content written under another key than the one that is read.
CubbyholeDataOtherKey(content) == [k \in {"config"} |-> Str(content)]

\* The data WriteToCubbyhole writes.
CubbyholeData(content) == [k \in {ConfigKey} |-> Str(content)]

\* WriteToCubbyhole, on the answer nc of NewClient and wr of Write.
WriteToCubbyhole(nc, wr) ==
    IF nc.err # Nil THEN Return(Null, nc.err)
    ELSE IF wr.err # Nil THEN Return(Null, wr.err)
    ELSE Return(Null, Nil)

\* ReadFromCubbyhole of package vaulter, on the answer nc of NewClient and
\* rd of Read.  The type assertion .(string) panics on a value of another
\* type.
ReadFromCubbyhole(nc, rd) ==
    IF nc.err # Nil THEN Return(Str(""), nc.err)
    ELSE IF rd.err # Nil THEN Return(Str(""), rd.err)
    ELSE IF rd.secret.isNil THEN Return(Str(""), "secret is nil")
    ELSE IF ~rd.secret.hasData THEN Return(Str(""), "data is nil")
    ELSE IF ConfigKey \notin DOMAIN rd.secret.data
         THEN Return(Str(""), "data did not contain irods-config")
    ELSE IF rd.secret.data[ConfigKey] = Null THEN Return(Str(""), "irods-config is nil")
    ELSE IF rd.secret.data[ConfigKey].t # "string" THEN Panic
    ELSE Return(rd.secret.data[ConfigKey], Nil)

\* Index of a map[string]interface{}: nil for a key the map does not hold.
Index(data, key) == IF key \in DOMAIN data THEN data[key] ELSE Null

\* ReadFromCubbyhole of the earlier revisions (*AppVaulter and *App): no
\* test that the key is there.
AppVaulterReadFromCubbyhole(nc, rd) ==
    IF nc.err # Nil THEN Return(Str(""), nc.err)
    ELSE IF rd.err # Nil THEN Return(Str(""), rd.err)
    ELSE IF rd.secret.isNil THEN Return(Str(""), "secret is nil")
    ELSE IF ~rd.secret.hasData THEN Return(Str(""), "data is nil")
    ELSE IF Index(rd.secret.data, ConfigKey) = Null
         THEN Return(Str(""), "irods-config is nil")
    ELSE IF Index(rd.secret.data, ConfigKey).t # "string" THEN Panic
    ELSE Return(Index(rd.secret.data, ConfigKey), Nil)

-----------------------------------------------------------------------------
(* The pki backend. *)

\* fmt.Sprintf("pki/roles/%s", roleName) and fmt.Sprintf("pki/issue/%s", role)
RolePath(roleName) == "pki/roles/" \o roleName

\* A probe path under the roles of the backend.
IssuePathUnderRoles(role) == "pki/roles/" \o role

IssuePath(role) == "pki/issue/" \o role

\* Role data that holds allow_subdomains as a bool.
RoleDataNativeBool(domains, subdomains) ==
    [k \in {"allowed_domains", "allow_subdomains"} |->
        IF k = "allowed_domains" THEN Str(domains) ELSE Bool(subdomains)]

\* The data CreateRole writes.
RoleData(domains, subdomains) ==
    [k \in {"allowed_domains", "allow_subdomains"} |->
        IF k = "allowed_domains" THEN Str(domains) ELSE Str(FormatBool(subdomains))]

\* The data of a certificate request.
IssueData(commonName) == [k \in {"common_name"} |-> Str(commonName)]

\* CreateRole that returns the write's result without its error.
CreateRoleErrorDropped(wr) == ReturnSecret(wr.secret, Nil)

\* CreateRole, on the answer wr of Write.
CreateRole(wr) == ReturnSecret(wr.secret, wr.err)

\* HasRole without the comparison of allow_subdomains.
HasRoleDomainsOnly(rd, domains, subdomains) ==
    IF rd.err # Nil THEN Return(Bool(FALSE), rd.err)
    ELSE IF rd.secret.isNil THEN Return(Bool(FALSE), Nil)
    ELSE IF ~rd.secret.hasData THEN Return(Bool(FALSE), Nil)
    ELSE IF "allowed_domains" \notin DOMAIN rd.secret.data THEN Return(Bool(FALSE), Nil)
    ELSE IF rd.secret.data["allowed_domains"] # Str(domains) THEN Return(Bool(FALSE), Nil)
    ELSE IF "allow_subdomains" \notin DOMAIN rd.secret.data THEN Return(Bool(FALSE), Nil)
    ELSE Return(Bool(TRUE), Nil)

\* HasRole that reports a role that does not exist as an error.
HasRoleAbsentIsError(rd, domains, subdomains) ==
    IF rd.err # Nil THEN Return(Bool(FALSE), rd.err)
    ELSE IF rd.secret.isNil THEN Return(Bool(FALSE), "role not found")
    ELSE IF ~rd.secret.hasData THEN Return(Bool(FALSE), Nil)
    ELSE IF "allowed_domains" \notin DOMAIN rd.secret.data THEN Return(Bool(FALSE), Nil)
    ELSE IF rd.secret.data["allowed_domains"] # Str(domains) THEN Return(Bool(FALSE), Nil)
    ELSE IF "allow_subdomains" \notin DOMAIN rd.secret.data THEN Return(Bool(FALSE), Nil)
    ELSE IF rd.secret.data["allow_subdomains"] # Str(FormatBool(subdomains))
         THEN Return(Bool(FALSE), Nil)
    ELSE Return(Bool(TRUE), Nil)

\* HasRole of vaulter.go, on the answer rd of Read: allow_subdomains is
\* compared with strconv.FormatBool(subdomains).
HasRole(rd, domains, subdomains) ==
    IF rd.err # Nil THEN Return(Bool(FALSE), rd.err)
    ELSE IF rd.secret.isNil THEN Return(Bool(FALSE), Nil)
    ELSE IF ~rd.secret.hasData THEN Return(Bool(FALSE), Nil)
    ELSE IF "allowed_domains" \notin DOMAIN rd.secret.data THEN Return(Bool(FALSE), Nil)
    ELSE IF rd.secret.data["allowed_domains"] # Str(domains) THEN Return(Bool(FALSE), Nil)
    ELSE IF "allow_subdomains" \notin DOMAIN rd.secret.data THEN Return(Bool(FALSE), Nil)
    ELSE IF rd.secret.data["allow_subdomains"] # Str(FormatBool(subdomains))
         THEN Return(Bool(FALSE), Nil)
    ELSE Return(Bool(TRUE), Nil)

\* HasRole of main.go: allow_subdomains is compared with the bool subdomains.
HasRoleNative(rd, domains, subdomains) ==
    IF rd.err # Nil THEN Return(Bool(FALSE), rd.err)
    ELSE IF rd.secret.isNil THEN Return(Bool(FALSE), Nil)
    ELSE IF ~rd.secret.hasData THEN Return(Bool(FALSE), Nil)
    ELSE IF "allowed_domains" \notin DOMAIN rd.secret.data THEN Return(Bool(FALSE), Nil)
    ELSE IF rd.secret.data["allowed_domains"] # Str(domains) THEN Return(Bool(FALSE), Nil)
    ELSE IF "allow_subdomains" \notin DOMAIN rd.secret.data THEN Return(Bool(FALSE), Nil)
    ELSE IF rd.secret.data["allow_subdomains"] # Bool(subdomains)
         THEN Return(Bool(FALSE), Nil)
    ELSE Return(Bool(TRUE), Nil)

\* GeneratePKICert that keeps the certificate to itself.
GeneratePKICertNoArtifact(wr) == ReturnSecret(NilSecret, wr.err)

\* GeneratePKICert, on the answer wr of Write.
GeneratePKICert(wr) == ReturnSecret(wr.secret, wr.err)

\* What the server answers to the revocation of the certificate id: done, or
\* no such certificate; or the request fails on the way.
CertName(i) == "cert" \o ToString(i)
RevokeErrors == {"revoke error"}
RevokeResults(id) ==
    {IF id \in {CertName(i) : i \in 1..certs}
     THEN [err |-> Nil, mode |-> "ok"]
     ELSE [err |-> "invalid serial " \o id, mode |-> "ok"]}
    \cup {[err |-> e, mode |-> "fail"] : e \in RevokeErrors}

\* RevokePKICert that reports every revocation as done.
RevokePKICertErrorDropped(rv) == Return(Null, Nil)

\* RevokePKICert, on the answer rv of Revoke.
RevokePKICert(rv) == Return(Null, rv.err)

\* strings.Contains
Contains(s, sub) ==
    \E i \in 1..(Len(s) - Len(sub) + 1) : SubSeq(s, i, i + Len(sub) - 1) = sub

\* HasRootCert that looks for the message anywhere in the error.
HasRootCertContains(nc, wr) ==
    IF nc.err # Nil THEN Return(Bool(FALSE), nc.err)
    ELSE IF wr.err # Nil
         THEN IF Contains(wr.err, CAMissing)
              THEN Return(Bool(FALSE), Nil)
              ELSE Return(Bool(FALSE), wr.err)
    ELSE Return(Bool(TRUE), Nil)

\* HasRootCert, on the answer nc of NewClient and wr of Write.
HasRootCert(nc, wr) ==
    IF nc.err # Nil THEN Return(Bool(FALSE), nc.err)
    ELSE IF wr.err # Nil
         THEN IF HasSuffix(wr.err, CAMissing)
              THEN Return(Bool(FALSE), Nil)
              ELSE Return(Bool(FALSE), wr.err)
    ELSE Return(Bool(TRUE), Nil)

-----------------------------------------------------------------------------
(* The operations.  Each action is one call of a function of the package:  *)
(* the primitive calls it makes, the server's answer to each, the change   *)
(* the server makes, and the result, recorded in last.                     *)

Paths == {"cubbyhole/", "pki/"}
Configs == {CubbyholeConfig, PKIConfig, LeasedConfig}
Contents == {"foo", "payload"}
RoleNames == {"foo"}
Domains == {"foo.com", "bar.com"}
CommonNames == {"test.example.com"}
LeaseTTLs == {<<"1h", "2h">>}
MountPaths == {"secret/foo", "cubbyhole/tok1"}
MountTokens == {RootToken, "tok1"}
MountData == {[k \in {"irods-config"} |-> Str("foo")], [k \in {"test"} |-> Str("value")]}
CertIds == {"cert1", "foo"}

NoData == EmptyMap
NoContent == "<none>"   \* nothing written yet

\* Mount(m, path, c)
CallMount(path, c) ==
    \E mr \in MountResults(path, MountInput(c)) :
        /\ mounts' = mr.mounts
        /\ last' = Done("Mount", "mounts.go",
                        <<path, c.Type, c.Description, c.DefaultLeaseTTL, c.MaxLeaseTTL>>,
                        Return(Null, mr.err),
                        <<Call("Mount", RootToken, path, Fields(MountInput(c)), 0)>>,
                        [secret |-> NilSecret, err |-> mr.err, mode |-> mr.mode])
        /\ UNCHANGED <<uses, issued, store, certs>>

\* IsMounted(l, path)
CallIsMounted(path) ==
    \E lm \in ListMountsResults :
        /\ last' = Done("IsMounted", "mounts.go", <<path>>, IsMounted(lm, path),
                        <<Call("ListMounts", RootToken, "", NoData, 0)>>,
                        [secret |-> NilSecret, err |-> lm.err,
                         mode |-> IF lm.err = Nil THEN "ok" ELSE "fail"])
        /\ UNCHANGED <<mounts, uses, issued, store, certs>>

\* MountConfig(m, path)
CallMountConfig(path) ==
    \E mc \in MountConfigResults(path) :
        /\ last' = Done("MountConfig", "mounts.go", <<path>>, MountConfig(mc),
                        <<Call("MountConfig", RootToken, path, NoData, 0)>>,
                        [secret |-> NilSecret, err |-> mc.err, mode |-> mc.mode])
        /\ UNCHANGED <<mounts, uses, issued, store, certs>>

\* TuneMount(t, path, defaultTTL, maxTTL)
CallTuneMount(path, defaultTTL, maxTTL) ==
    LET in == MountConfigInput(defaultTTL, maxTTL) IN
    \E tm \in TuneMountResults(path, in) :
        /\ mounts' = tm.mounts
        /\ last' = Done("TuneMount", "mounts.go", <<path, defaultTTL, maxTTL>>,
                        TuneMount(tm),
                        <<Call("TuneMount", RootToken, path, Fields(in), 0)>>,
                        [secret |-> NilSecret, err |-> tm.err, mode |-> tm.mode])
        /\ UNCHANGED <<uses, issued, store, certs>>

\* WriteMount(cw, path, token, data)
CallWriteMount(path, token, data) ==
    \E nc \in NewClientResults :
        IF nc.err # Nil
        THEN /\ last' = Done("WriteMount", "mounts.go", <<path, token>>,
                             WriteMount(nc, NoResp),
                             <<Call("NewClient", NoToken, "", NoData, 0)>>,
                             ClientFailure(nc))
             /\ UNCHANGED <<mounts, uses, issued, store, certs>>
        ELSE LET client == SetToken(nc, token)
             IN \E wr \in WriteResults(client.tok, path, data) :
                    /\ store' = wr.store
                    /\ uses' = wr.uses
                    /\ certs' = wr.certs
                    /\ last' = Done("WriteMount", "mounts.go", <<path, token>>,
                                    WriteMount(nc, wr),
                                    <<Call("NewClient", NoToken, "", NoData, 0),
                                      Call("SetToken", token, "", NoData, 0),
                                      Call("Write", client.tok, path, data, 0)>>,
                                    Resp(wr))
                    /\ UNCHANGED <<mounts, issued>>

\* ReadMount(cr, path, token)
CallReadMount(path, token) ==
    \E nc \in NewClientResults :
        IF nc.err # Nil
        THEN /\ last' = Done("ReadMount", "mounts.go", <<path, token>>,
                             ReadMount(nc, NoResp),
                             <<Call("NewClient", NoToken, "", NoData, 0)>>,
                             ClientFailure(nc))
             /\ UNCHANGED <<mounts, uses, issued, store, certs>>
        ELSE LET client == SetToken(nc, token)
             IN \E rd \in ReadResults(client.tok, path) :
                    /\ uses' = rd.uses
                    /\ last' = Done("ReadMount", "mounts.go", <<path, token>>,
                                    ReadMount(nc, rd),
                                    <<Call("NewClient", NoToken, "", NoData, 0),
                                      Call("SetToken", token, "", NoData, 0),
                                      Call("Read", client.tok, path, NoData, 0)>>,
                                    Resp(rd))
                    /\ UNCHANGED <<mounts, issued, store, certs>>

\* ChildToken(t)
CallChildToken ==
    LET opts == TokenCreateRequest IN
    \E ct \in CreateTokenResults(opts) :
        /\ uses' = ct.uses
        /\ issued' = ct.issued
        /\ last' = Done("ChildToken", "vaulter.go", <<>>, ChildToken(ct),
                        <<Call("Token", RootToken, "", NoData, 0),
                          Call("CreateToken", RootToken, "", NoData, opts.NumUses)>>,
                        Resp(ct))
        /\ UNCHANGED <<mounts, store, certs>>

\* WriteToCubbyhole(cw, token, content)
CallWriteToCubbyhole(token, content) ==
    \E nc \in NewClientResults :
        IF nc.err # Nil
        THEN /\ last' = Done("WriteToCubbyhole", "vaulter.go", <<token, content>>,
                             WriteToCubbyhole(nc, NoResp),
                             <<Call("NewClient", NoToken, "", NoData, 0)>>,
                             ClientFailure(nc))
             /\ UNCHANGED <<mounts, uses, issued, store, certs, written>>
        ELSE LET client == SetToken(nc, token)
                 writePath == CubbyholePath(token)
                 data == CubbyholeData(content)
             IN \E wr \in WriteResults(client.tok, writePath, data) :
                    /\ store' = wr.store
                    /\ uses' = wr.uses
                    /\ certs' = wr.certs
                    /\ last' = Done("WriteToCubbyhole", "vaulter.go", <<token, content>>,
                                    WriteToCubbyhole(nc, wr),
                                    <<Call("NewClient", NoToken, "", NoData, 0),
                                      Call("SetToken", token, "", NoData, 0),
                                      Call("Write", client.tok, writePath, data, 0)>>,
                                    Resp(wr))
                    /\ written' = IF wr.err = Nil
                                  THEN [written EXCEPT ![token] = content]
                                  ELSE written
                    /\ UNCHANGED <<mounts, issued>>

ReadRevisions == {"vaulter.go", "AppVaulter"}

\* ReadFromCubbyhole(cr, token), in the revision rev of the code
CallReadFromCubbyhole(rev, token) ==
    \E nc \in NewClientResults :
        IF nc.err # Nil
        THEN /\ last' = Done("ReadFromCubbyhole", rev, <<token>>,
                             IF rev = "vaulter.go"
                             THEN ReadFromCubbyhole(nc, NoResp)
                             ELSE AppVaulterReadFromCubbyhole(nc, NoResp),
                             <<Call("NewClient", NoToken, "", NoData, 0)>>,
                             ClientFailure(nc))
             /\ UNCHANGED <<mounts, uses, issued, store, certs>>
        ELSE LET client == SetToken(nc, token)
                 readPath == CubbyholePath(token)
             IN \E rd \in ReadResults(client.tok, readPath) :
                    /\ uses' = rd.uses
                    /\ last' = Done("ReadFromCubbyhole", rev, <<token>>,
                                    IF rev = "vaulter.go"
                                    THEN ReadFromCubbyhole(nc, rd)
                                    ELSE AppVaulterReadFromCubbyhole(nc, rd),
                                    <<Call("NewClient", NoToken, "", NoData, 0),
                                      Call("SetToken", token, "", NoData, 0),
                                      Call("Read", client.tok, readPath, NoData, 0)>>,
                                    Resp(rd))
                    /\ UNCHANGED <<mounts, issued, store, certs>>

\* CreateRole(r, roleName, domains, subdomains)
CallCreateRole(roleName, domains, subdomains) ==
    LET writePath == RolePath(roleName)
        data == RoleData(domains, subdomains)
    IN \E wr \in WriteResults(RootToken, writePath, data) :
           /\ store' = wr.store
           /\ uses' = wr.uses
           /\ certs' = wr.certs
           /\ last' = Done("CreateRole", "vaulter.go",
                           <<roleName, domains, FormatBool(subdomains)>>,
                           CreateRole(wr),
                           <<Call("Client", RootToken, "", NoData, 0),
                             Call("Write", RootToken, writePath, data, 0)>>,
                           Resp(wr))
           /\ UNCHANGED <<mounts, issued>>

RoleRevisions == {"vaulter.go", "main.go"}

\* HasRole(r, roleName, domains, subdomains), in the revision rev of the code
CallHasRole(rev, roleName, domains, subdomains) ==
    LET readPath == RolePath(roleName)
    IN \E rd \in ReadResults(RootToken, readPath) :
           /\ uses' = rd.uses
           /\ last' = Done("HasRole", rev,
                           <<roleName, domains, FormatBool(subdomains)>>,
                           IF rev = "vaulter.go"
                           THEN HasRole(rd, domains, subdomains)
                           ELSE HasRoleNative(rd, domains, subdomains),
                           <<Call("Client", RootToken, "", NoData, 0),
                             Call("Read", RootToken, readPath, NoData, 0)>>,
                           Resp(rd))
           /\ UNCHANGED <<mounts, issued, store, certs>>

\* HasRootCert(m, role, commonName)
CallHasRootCert(role, commonName) ==
    \E nc \in NewClientResults :
        IF nc.err # Nil
        THEN /\ last' = Done("HasRootCert", "vaulter.go", <<role, commonName>>,
                             HasRootCert(nc, NoResp),
                             <<Call("NewClient", NoToken, "", NoData, 0)>>,
                             ClientFailure(nc))
             /\ UNCHANGED <<mounts, uses, issued, store, certs>>
        ELSE LET writePath == IssuePath(role)
                 data == IssueData(commonName)
             IN \E wr \in WriteResults(nc.tok, writePath, data) :
                    /\ store' = wr.store
                    /\ uses' = wr.uses
                    /\ certs' = wr.certs
                    /\ last' = Done("HasRootCert", "vaulter.go", <<role, commonName>>,
                                    HasRootCert(nc, wr),
                                    <<Call("NewClient", NoToken, "", NoData, 0),
                                      Call("Write", nc.tok, writePath, data, 0)>>,
                                    Resp(wr))
                    /\ UNCHANGED <<mounts, issued>>

\* GeneratePKICert(r, roleName, commonName)
CallGeneratePKICert(roleName, commonName) ==
    LET writePath == IssuePath(roleName)
        data == IssueData(commonName)
    IN \E wr \in WriteResults(RootToken, writePath, data) :
           /\ store' = wr.store
           /\ uses' = wr.uses
           /\ certs' = wr.certs
           /\ last' = Done("GeneratePKICert", "certs.go", <<roleName, commonName>>,
                           GeneratePKICert(wr),
                           <<Call("Client", RootToken, "", NoData, 0),
                             Call("Write", RootToken, writePath, data, 0)>>,
                           Resp(wr))
           /\ UNCHANGED <<mounts, issued>>

\* RevokePKICert(r, id)
CallRevokePKICert(id) ==
    \E rv \in RevokeResults(id) :
        /\ last' = Done("RevokePKICert", "certs.go", <<id>>, RevokePKICert(rv),
                        <<Call("Client", RootToken, "", NoData, 0),
                          Call("Revoke", RootToken, id, NoData, 0)>>,
                        [secret |-> NilSecret, err |-> rv.err, mode |-> rv.mode])
        /\ UNCHANGED <<mounts, uses, issued, store, certs>>

-----------------------------------------------------------------------------
(* The specifications. *)

\* The callers that use the VaultAPI at the same time, and the credential
\* each of them passes.
Callers == {"a", "b"}
CallerToken == [p \in Callers |-> IF p = "a" THEN RootToken ELSE TokenName(1)]

\* The clients in memory: handle 0 is the client stored in the VaultAPI, the
\* others are created by NewClient and dropped when the call returns.
Handles == 0..Cardinality(Callers)
NoClient == [err |-> "free", tok |-> NoToken]
StoredClient == [err |-> Nil, tok |-> RootToken]
Idle == [pc |-> "idle", op |-> "", client |-> 0]
NoCalls == [clients |-> [h \in Handles |-> IF h = 0 THEN StoredClient ELSE NoClient],
            callers |-> [p \in Callers |-> Idle]]

\* The end-to-end run before its first step.
NoRun == [pc |-> "mount", fresh |-> TRUE, mounted |-> FALSE, token |-> "",
          payload |-> "", read |-> Null, clean |-> TRUE, again |-> Nil]

\* A caller that has not started main's check-then-mount sequence.  checked
\* is what IsCubbyholeMounted returned in the run, sent the mount requests the
\* run made, mountErr what MountCubbyhole returned, clean that every request
\* of the run was answered by the server's own rules, and okBefore that an
\* earlier run of the caller completed without error.
NotStarted == [pc |-> "idle", rev |-> "", checked |-> [ret |-> Null, err |-> Nil], sent |-> 0,
               mountErr |-> Nil, clean |-> TRUE, okBefore |-> FALSE]
NoSetup == [p \in Callers |-> NotStarted]

\* The zero VaultAPI: no client and no config.
NoAPI == [client |-> [isNil |-> TRUE, tok |-> NoToken, cfg |-> [isNil |-> TRUE]],
          cfg |-> [isNil |-> TRUE]]

Init ==
    /\ mounts \in {NoMounts, MissListing}
    /\ uses = [t \in ChildTokens |-> 0]
    /\ issued = 0
    /\ store = [p \in {} |-> EmptyMap]
    /\ certs = 0
    /\ last = NoOp
    /\ written = [t \in Tokens |-> NoContent]
    /\ scn = NoRun
    /\ conc = NoCalls
    /\ setup = NoSetup
    /\ api = NoAPI

\* The mount functions of mounts.go
MountOp == \E p \in Paths, c \in Configs : CallMount(p, c) /\ UNCHANGED <<written, scn, conc, setup, api>>
IsMountedOp == \E p \in QueryPaths : CallIsMounted(p) /\ UNCHANGED <<written, scn, conc, setup, api>>
MountConfigOp == \E p \in Paths : CallMountConfig(p) /\ UNCHANGED <<written, scn, conc, setup, api>>
TuneMountOp ==
    \E p \in Paths, ttl \in LeaseTTLs :
        CallTuneMount(p, ttl[1], ttl[2]) /\ UNCHANGED <<written, scn, conc, setup, api>>
WriteMountOp ==
    \E p \in MountPaths, t \in MountTokens, d \in MountData :
        CallWriteMount(p, t, d) /\ UNCHANGED <<written, scn, conc, setup, api>>
ReadMountOp ==
    \E p \in MountPaths, t \in MountTokens :
        CallReadMount(p, t) /\ UNCHANGED <<written, scn, conc, setup, api>>
NextMounts ==
    \/ MountOp \/ IsMountedOp \/ MountConfigOp \/ TuneMountOp
    \/ WriteMountOp \/ ReadMountOp
SpecMounts == Init /\ [][NextMounts]_vars

\* Child tokens and the cubbyhole
ChildTokenOp == CallChildToken /\ UNCHANGED <<written, scn, conc, setup, api>>
WriteToCubbyholeOp ==
    \E t \in Tokens, c \in Contents : CallWriteToCubbyhole(t, c) /\ UNCHANGED <<scn, conc, setup, api>>
ReadFromCubbyholeOp ==
    \E r \in ReadRevisions, t \in Tokens : CallReadFromCubbyhole(r, t) /\ UNCHANGED <<written, scn, conc, setup, api>>
NextCubbyhole == ChildTokenOp \/ WriteToCubbyholeOp \/ ReadFromCubbyholeOp
SpecCubbyhole == Init /\ [][NextCubbyhole]_vars

\* Two holders of credentials, the parent token and a child token, writing
\* and reading their secrets in any order
Holders == {RootToken, TokenName(1)}
HolderWriteOp ==
    \E t \in Holders, c \in Contents : CallWriteToCubbyhole(t, c) /\ UNCHANGED <<scn, conc, setup, api>>
HolderReadOp ==
    \E t \in Holders : CallReadFromCubbyhole("vaulter.go", t) /\ UNCHANGED <<written, scn, conc, setup, api>>
NextHolders == ChildTokenOp \/ HolderWriteOp \/ HolderReadOp
SpecHolders == Init /\ [][NextHolders]_vars

\* The two functions that write with a client of their own
SecretWriteMountOp ==
    \E t \in MountTokens, d \in MountData :
        CallWriteMount("secret/foo", t, d) /\ UNCHANGED <<written, scn, conc, setup, api>>
NextWrites == ChildTokenOp \/ HolderWriteOp \/ SecretWriteMountOp
SpecWrites == Init /\ [][NextWrites]_vars

\* Roles and certificates
CreateRoleOp ==
    \E n \in RoleNames, d \in Domains, b \in BOOLEAN :
        CallCreateRole(n, d, b) /\ UNCHANGED <<written, scn, conc, setup, api>>
HasRoleOp ==
    \E r \in RoleRevisions, n \in RoleNames, d \in Domains, b \in BOOLEAN :
        CallHasRole(r, n, d, b) /\ UNCHANGED <<written, scn, conc, setup, api>>
HasRootCertOp ==
    \E r \in RoleNames, cn \in CommonNames : CallHasRootCert(r, cn) /\ UNCHANGED <<written, scn, conc, setup, api>>
GeneratePKICertOp ==
    \E r \in RoleNames, cn \in CommonNames :
        CallGeneratePKICert(r, cn) /\ UNCHANGED <<written, scn, conc, setup, api>>
RevokePKICertOp == \E id \in CertIds : CallRevokePKICert(id) /\ UNCHANGED <<written, scn, conc, setup, api>>
NextPKI ==
    \/ CreateRoleOp \/ HasRoleOp \/ HasRootCertOp
    \/ GeneratePKICertOp \/ RevokePKICertOp
SpecPKI == Init /\ [][NextPKI]_vars

\* The end-to-end run: Mount, IsMounted, ChildToken, WriteToCubbyhole and
\* ReadFromCubbyhole called one after the other, each step taken only when
\* the step before returned without an error (as main does with log.Fatal).
\* clean records that every request so far was answered by the server's own
\* rules, without a failure on the way.
Step(next) ==
    [scn EXCEPT !.pc = IF last'.err = Nil /\ last'.status = "returned"
                       THEN next ELSE "failed",
                !.clean = scn.clean /\ last'.resp.mode = "ok"]

RunMount ==
    /\ scn.pc = "mount"
    /\ CallMount("cubbyhole/", CubbyholeConfig)
    /\ scn' = Step("check")
    /\ UNCHANGED <<written, conc, setup, api>>

RunIsMounted ==
    /\ scn.pc = "check"
    /\ CallIsMounted("cubbyhole/")
    /\ scn' = [Step("token") EXCEPT !.mounted = (last'.ret = Bool(TRUE))]
    /\ UNCHANGED <<written, conc, setup, api>>

RunChildToken ==
    /\ scn.pc = "token"
    /\ CallChildToken
    /\ scn' = [Step("write") EXCEPT !.token = last'.ret.v]
    /\ UNCHANGED <<written, conc, setup, api>>

RunWrite ==
    /\ scn.pc = "write"
    /\ \E c \in Contents :
           /\ CallWriteToCubbyhole(scn.token, c)
           /\ scn' = [Step("read") EXCEPT !.payload = c]
    /\ UNCHANGED <<conc, setup, api>>

RunRead ==
    /\ scn.pc = "read"
    /\ CallReadFromCubbyhole("vaulter.go", scn.token)
    /\ scn' = [Step("done") EXCEPT !.read = last'.ret]
    /\ UNCHANGED <<written, conc, setup, api>>

\* The read that main makes after the run, with the same token, and any read
\* after it: main expects an error.  again is the error it returned.
RunReadAgain ==
    /\ scn.pc \in {"done", "over"}
    /\ \E rev \in ReadRevisions : CallReadFromCubbyhole(rev, scn.token)
    /\ scn' = [scn EXCEPT !.pc = "over", !.again = last'.err,
                          !.clean = scn.clean /\ last'.resp.mode = "ok"]
    /\ UNCHANGED <<written, conc, setup, api>>

\* The run is started again; fresh tells whether the server it starts on
\* has no cubbyhole mount.
RunAgain ==
    /\ scn.pc \in {"done", "failed", "over"}
    /\ scn' = [NoRun EXCEPT !.fresh = ("cubbyhole/" \notin DOMAIN mounts)]
    /\ UNCHANGED <<mounts, uses, issued, store, certs, last, written, conc, setup, api>>

NextRun ==
    \/ RunMount \/ RunIsMounted \/ RunChildToken \/ RunWrite \/ RunRead
    \/ RunReadAgain \/ RunAgain
SpecRun == Init /\ [][NextRun]_vars

\* Callers running WriteToCubbyhole and ReadFromCubbyhole of vaulter.go at the
\* same time on one VaultAPI.  A call is three steps, NewClient, SetToken and
\* the request, and the steps of different callers interleave.
ConcContent == "foo"

\* A client handle that is the stored client of the VaultAPI.
StoredHandle(clients) == 0

\* NewClient returns a client of its own: the first handle not in use.
NewHandle(clients) ==
    CHOOSE h \in Handles \ {0} :
        /\ clients[h] = NoClient
        /\ \A g \in 1..(h - 1) : clients[g] # NoClient

\* The state of the callers once p has returned and dropped its client.
Returned(p) ==
    LET h == conc.callers[p].client IN
    [clients |-> IF h = 0 THEN conc.clients ELSE [conc.clients EXCEPT ![h] = NoClient],
     callers |-> [conc.callers EXCEPT ![p] = Idle]]

\* p calls op, which calls NewClient and returns if that fails.
ConcNewClient(p, op) ==
    /\ conc.callers[p].pc = "idle"
    /\ \E nc \in NewClientResults :
           IF nc.err # Nil
           THEN /\ last' = Done(op, "vaulter.go", <<CallerToken[p]>>,
                                IF op = "WriteToCubbyhole"
                                THEN WriteToCubbyhole(nc, NoResp)
                                ELSE ReadFromCubbyhole(nc, NoResp),
                                <<Call("NewClient", NoToken, "", NoData, 0)>>,
                                ClientFailure(nc))
                /\ UNCHANGED conc
           ELSE /\ conc' = LET h == NewHandle(conc.clients) IN
                       [clients |-> [conc.clients EXCEPT ![h] = nc],
                        callers |-> [conc.callers EXCEPT ![p] =
                                        [pc |-> "set", op |-> op, client |-> h]]]
                /\ UNCHANGED last
    /\ UNCHANGED <<mounts, uses, issued, store, certs, written, scn, setup, api>>

\* p binds its credential to the client it holds.
ConcSetToken(p) ==
    /\ conc.callers[p].pc = "set"
    /\ conc' = LET h == conc.callers[p].client IN
               [clients |-> [conc.clients EXCEPT ![h] = SetToken(@, CallerToken[p])],
                callers |-> [conc.callers EXCEPT ![p].pc = "send"]]
    /\ UNCHANGED <<mounts, uses, issued, store, certs, last, written, scn, setup, api>>

\* p sends its write with the client it holds, and returns.
ConcWrite(p) ==
    /\ conc.callers[p].pc = "send"
    /\ conc.callers[p].op = "WriteToCubbyhole"
    /\ LET client == conc.clients[conc.callers[p].client]
           token == CallerToken[p]
           writePath == CubbyholePath(token)
           data == CubbyholeData(ConcContent)
       IN \E wr \in WriteResults(client.tok, writePath, data) :
              /\ store' = wr.store
              /\ uses' = wr.uses
              /\ certs' = wr.certs
              /\ last' = Done("WriteToCubbyhole", "vaulter.go", <<token, ConcContent>>,
                              WriteToCubbyhole(client, wr),
                              <<Call("NewClient", NoToken, "", NoData, 0),
                                Call("SetToken", token, "", NoData, 0),
                                Call("Write", client.tok, writePath, data, 0)>>,
                              Resp(wr))
              /\ written' = IF wr.err = Nil
                            THEN [written EXCEPT ![token] = ConcContent]
                            ELSE written
    /\ conc' = Returned(p)
    /\ UNCHANGED <<mounts, issued, scn, setup, api>>

\* p sends its read with the client it holds, and returns.
ConcRead(p) ==
    /\ conc.callers[p].pc = "send"
    /\ conc.callers[p].op = "ReadFromCubbyhole"
    /\ LET client == conc.clients[conc.callers[p].client]
           token == CallerToken[p]
           readPath == CubbyholePath(token)
       IN \E rd \in ReadResults(client.tok, readPath) :
              /\ uses' = rd.uses
              /\ last' = Done("ReadFromCubbyhole", "vaulter.go", <<token>>,
                              ReadFromCubbyhole(client, rd),
                              <<Call("NewClient", NoToken, "", NoData, 0),
                                Call("SetToken", token, "", NoData, 0),
                                Call("Read", client.tok, readPath, NoData, 0)>>,
                              Resp(rd))
    /\ conc' = Returned(p)
    /\ UNCHANGED <<mounts, issued, store, certs, written, scn, setup, api>>

NextConcurrent ==
    \/ ChildTokenOp
    \/ \E p \in Callers, op \in {"WriteToCubbyhole", "ReadFromCubbyhole"} :
           ConcNewClient(p, op)
    \/ \E p \in Callers : ConcSetToken(p)
    \/ \E p \in Callers : ConcWrite(p)
    \/ \E p \in Callers : ConcRead(p)
SpecConcurrent == Init /\ [][NextConcurrent]_vars

-----------------------------------------------------------------------------
(* The properties. *)

C2_ListErrorPropagated ==
    last.op = "IsMounted" =>
        /\ last.resp.err # Nil => (last.ret = Bool(FALSE) /\ last.err = last.resp.err)
        /\ ~(last.ret = Bool(TRUE) /\ last.err # Nil)

\* ListMounts failed while the path asked for is mounted on the server.
C2_Witness ==
    /\ last.op = "IsMounted" /\ last.resp.err # Nil
    /\ last.args[1] \in DOMAIN mounts
    /\ last.ret = Bool(FALSE) /\ last.err = "test error"

\* The answer of CreateToken carries an authorization block / a token.
TokenResponseHasNoAuth(r) == r.err = Nil /\ ~r.secret.isNil /\ ~r.secret.hasAuth
TokenResponseHasEmptyToken(r) ==
    r.err = Nil /\ ~r.secret.isNil /\ r.secret.hasAuth /\ r.secret.clientToken = ""
TokenResponseIsGood(r) ==
    r.err = Nil /\ ~r.secret.isNil /\ r.secret.hasAuth /\ r.secret.clientToken # ""

\* C3: ChildToken returns a non-empty credential and a nil error exactly when
\* CreateToken succeeds with an authorization block holding a non-empty
\* token, and then the credential is that token; when CreateToken fails,
\* when the secret has no authorization block and when the token is empty it
\* returns the empty credential and an error, and the errors of the last two
\* cases differ.
C3_ChildTokenResult ==
    last.op = "ChildToken" =>
        LET r == last.resp IN
        /\ (last.status = "returned" /\ last.ret # Str("") /\ last.err = Nil)
              <=> TokenResponseIsGood(r)
        /\ TokenResponseIsGood(r) => last.ret = Str(r.secret.clientToken)
        /\ (r.err # Nil \/ TokenResponseHasNoAuth(r) \/ TokenResponseHasEmptyToken(r))
              => (last.status = "returned" /\ last.ret = Str("") /\ last.err # Nil)
        /\ r.err # Nil => last.err = r.err
        /\ TokenResponseHasNoAuth(r) =>
              last.err # ChildToken([secret |-> AuthSecret(""), err |-> Nil]).err
        /\ TokenResponseHasEmptyToken(r) =>
              last.err # ChildToken([secret |-> BareSecret, err |-> Nil]).err

\* CreateToken answered with an authorization block whose token is empty.
C3_Witness ==
    /\ last.op = "ChildToken"
    /\ TokenResponseHasEmptyToken(last.resp)
    /\ last.ret = Str("") /\ last.err # Nil

\* The CreateToken calls of the last operation.
CreateTokenCalls == {i \in DOMAIN last.calls : last.calls[i].prim = "CreateToken"}

C5_RoundTrip ==
    (/\ last.op = "ReadFromCubbyhole"
     /\ last.resp.mode = "ok" /\ last.resp.err = Nil
     /\ written[last.args[1]] # NoContent)
        => (/\ last.status = "returned"
            /\ last.ret = Str(written[last.args[1]])
            /\ last.err = Nil)

\* A child token's payload is read back with the token's second use.
C5_Witness ==
    /\ last.op = "ReadFromCubbyhole" /\ last.rev = "vaulter.go"
    /\ last.args[1] = "tok1" /\ written["tok1"] = "payload"
    /\ last.resp.mode = "ok"
    /\ last.ret = Str("payload") /\ last.err = Nil
    /\ uses["tok1"] = 0

\* The first failure condition of a ReadFromCubbyhole, by what NewClient and
\* Read answered: 1 client creation failed, 2 the read failed, 3 no secret,
\* 4 no data container, 5 no irods-config key, 6 a null value; 0 none.
ReadCondition(r) ==
    IF r.mode = "client" THEN 1
    ELSE IF r.err # Nil THEN 2
    ELSE IF r.secret.isNil THEN 3
    ELSE IF ~r.secret.hasData THEN 4
    ELSE IF ConfigKey \notin DOMAIN r.secret.data THEN 5
    ELSE IF r.secret.data[ConfigKey] = Null THEN 6
    ELSE 0

\* C6: ReadFromCubbyhole reports the first failure condition that holds, in
\* the order client creation, read, absent secret, absent data container,
\* missing key, null value, each with an error of its own; a missing key and
\* a null value are not reported with the same error.
C6_OrderedErrors ==
    last.op = "ReadFromCubbyhole" =>
        LET c == ReadCondition(last.resp) IN
        /\ c # 0 => (last.status = "returned" /\ last.ret = Str(""))
        /\ c \in {1, 2} => last.err = last.resp.err
        /\ c = 3 => last.err = "secret is nil"
        /\ c = 4 => last.err = "data is nil"
        /\ c = 5 => last.err \notin {Nil, "secret is nil", "data is nil", "irods-config is nil"}
        /\ c = 6 => last.err = "irods-config is nil"

\* What C6 says, of the ReadFromCubbyhole of package vaulter alone.
C6_OrderedErrorsVaulter ==
    (last.op = "ReadFromCubbyhole" /\ last.rev = "vaulter.go") =>
        LET c == ReadCondition(last.resp) IN
        /\ c # 0 => (last.status = "returned" /\ last.ret = Str(""))
        /\ c \in {1, 2} => last.err = last.resp.err
        /\ c = 3 => last.err = "secret is nil"
        /\ c = 4 => last.err = "data is nil"
        /\ c = 5 => last.err = "data did not contain irods-config"
        /\ c = 6 => last.err = "irods-config is nil"

\* The role data a HasRole was answered with, and the arguments it was given.
RoleDataRead == last.resp.secret.data
RoleAnswered == last.resp.err = Nil /\ ~last.resp.secret.isNil /\ last.resp.secret.hasData
AskedDomains == last.args[2]
AskedSubdomains == (last.args[3] = "true")

\* A stored allow_subdomains value stands for the boolean b, as a bool or as
\* the string strconv.FormatBool gives.
MatchesBool(v, b) == v \in {Bool(b), Str(FormatBool(b))}

C8_HasRoleErrorOnlyOnRead ==
    last.op = "HasRole" =>
        /\ (last.err # Nil) <=> (last.resp.err # Nil)
        /\ last.err = last.resp.err
        /\ last.resp.err # Nil => last.ret = Bool(FALSE)
        /\ (/\ last.resp.err = Nil
            /\ \/ ~RoleAnswered
               \/ "allowed_domains" \notin DOMAIN RoleDataRead
               \/ "allow_subdomains" \notin DOMAIN RoleDataRead
               \/ RoleDataRead["allowed_domains"] # Str(AskedDomains)
               \/ ~MatchesBool(RoleDataRead["allow_subdomains"], AskedSubdomains))
              => (last.ret = Bool(FALSE) /\ last.err = Nil)

\* The server holds no role at the path and says so.
C8_Witness ==
    /\ last.op = "HasRole"
    /\ last.resp.mode = "ok" /\ last.resp.secret.isNil /\ last.resp.err = Nil
    /\ last.ret = Bool(FALSE) /\ last.err = Nil

\* The write errors whose message ends with the CA-missing text.
EndsWithCAMissing(e) ==
    e \in {"backend must be configured with a CA certificate/key",
           "Code: 400. Errors: * backend must be configured with a CA certificate/key"}

\* C9: once its client is created, HasRootCert returns (true, nil) when the
\* write succeeds, (false, nil) when the write fails with an error that ends
\* with the CA-missing text, and (false, err) with the write's error for any
\* other failure, also one that holds the text without ending with it.
C9_RootCertProbe ==
    (last.op = "HasRootCert" /\ last.resp.mode # "client") =>
        LET e == last.resp.err IN
        /\ last.status = "returned"
        /\ e = Nil => (last.ret = Bool(TRUE) /\ last.err = Nil)
        /\ (e # Nil /\ EndsWithCAMissing(e)) => (last.ret = Bool(FALSE) /\ last.err = Nil)
        /\ (e # Nil /\ ~EndsWithCAMissing(e)) => (last.ret = Bool(FALSE) /\ last.err = e)

\* The write failed with an error that holds the CA-missing text in front.
C9_Witness ==
    /\ last.op = "HasRootCert"
    /\ last.resp.err = "backend must be configured with a CA certificate/key first"
    /\ last.ret = Bool(FALSE) /\ last.err = last.resp.err

\* C10: a run that starts on a server without a cubbyhole mount and whose
\* requests the server answers by its own rules never has a step return an
\* error: after the mount IsMounted("cubbyhole/") says true, and the run ends
\* with the read returning the payload that was written under the child
\* token.
C10_EndToEnd ==
    (scn.fresh /\ scn.clean) =>
        /\ scn.pc # "failed"
        /\ scn.pc \in {"token", "write", "read", "done"} => scn.mounted
        /\ scn.pc \in {"write", "read", "done"} => scn.token \in ChildTokens
        /\ scn.pc = "done" => scn.read = Str(scn.payload)

\* The run ended with the payload read back.
C10_Witness ==
    /\ scn.pc = "done" /\ scn.fresh /\ scn.clean
    /\ scn.mounted /\ scn.token = "tok1"
    /\ scn.payload = "payload" /\ scn.read = Str("payload")
    /\ last.op = "ReadFromCubbyhole" /\ last.err = Nil

\* C11: once the write and the read of a run have succeeded with the child
\* token that ChildToken issued, every later ReadFromCubbyhole with that
\* token returns an error, whatever the server or the way to it does.
C11_TokenExhausted ==
    scn.pc = "over" =>
        /\ last.op = "ReadFromCubbyhole" /\ last.args[1] = scn.token
        /\ last.status = "returned" /\ last.ret = Str("")
        /\ last.err # Nil /\ scn.again # Nil
        /\ uses[scn.token] = 0

\* The server refuses the third request made with the child token.
C11_Witness ==
    /\ scn.pc = "over" /\ scn.token = "tok1" /\ scn.read = Str("foo")
    /\ last.op = "ReadFromCubbyhole" /\ last.resp.mode = "ok"
    /\ last.err = "permission denied"

\* The requests of the last operation that write or read server data, and
\* its calls that bind a credential to a client.
DataCalls == {i \in DOMAIN last.calls : last.calls[i].prim \in {"Write", "Read"}}
SetTokenCalls == {i \in DOMAIN last.calls : last.calls[i].prim = "SetToken"}

\* The client of request i is the stored client, which InitAPI bound to the
\* parent token, or a new client that SetToken bound before the request.
BoundBefore(i) ==
    \/ \E j \in 1..(i - 1) :
          last.calls[j].prim = "Client" /\ last.calls[j].tok = last.calls[i].tok
    \/ \E j \in SetTokenCalls : j < i /\ last.calls[j].tok = last.calls[i].tok

\* C12: every write and read an operation sends goes through a client that
\* had a credential bound to it before the request, and no client is bound
\* twice or bound after it was taken from the VaultAPI.
C12_CredentialBound ==
    /\ \A i \in DataCalls : BoundBefore(i)
    /\ Cardinality(SetTokenCalls) <= 1
    /\ \A j \in SetTokenCalls : \A k \in 1..(j - 1) : last.calls[k].prim # "Client"

\* What C12 says, of all operations but HasRootCert.
C12_CredentialBoundElsewhere == last.op # "HasRootCert" => C12_CredentialBound

\* The callers that hold a client.
InCall == {p \in Callers : conc.callers[p].pc # "idle"}

\* C13: with callers interleaving, the stored client of the VaultAPI keeps
\* the parent token, no two callers hold the same client, a caller that has
\* bound its credential finds it on its client until it sends its request,
\* and every write and read is sent with the credential of its caller, to
\* that credential's path.
C13_NoCredentialRace ==
    /\ conc.clients[0] = StoredClient
    /\ \A p \in InCall : conc.callers[p].client # 0
    /\ \A p, q \in InCall : p # q => conc.callers[p].client # conc.callers[q].client
    /\ \A p \in InCall :
          conc.callers[p].pc = "send" =>
              conc.clients[conc.callers[p].client].tok = CallerToken[p]
    /\ \A i \in DataCalls :
          /\ last.calls[i].tok = last.args[1]
          /\ last.calls[i].path = "cubbyhole/" \o last.args[1]

\* One caller has sent its write while the other, with another credential,
\* stands between its SetToken and its request.
C13_Witness ==
    /\ last.op = "WriteToCubbyhole" /\ last.args[1] = "tok1" /\ last.err = Nil
    /\ conc.callers["b"].pc = "set"
    /\ conc.callers["a"].pc = "send"
    /\ conc.clients[conc.callers["a"].client].tok = RootToken
    /\ conc.clients[conc.callers["b"].client].tok = NoToken

\* The primitives of the server and of the client library, and the calls
\* the last operation made of the primitive prim.
Primitives ==
    {"Mount", "ListMounts", "MountConfig", "TuneMount", "NewClient", "Write",
     "Read", "CreateToken", "Revoke"}
CallsOf(prim) == {i \in DOMAIN last.calls : last.calls[i].prim = prim}

AskedConfig(args) ==
    [Type |-> args[2], Description |-> args[3],
     DefaultLeaseTTL |-> args[4], MaxLeaseTTL |-> args[5]]

\* C15: a Mount sends one mount request and nothing else, for the caller's
\* path and with the caller's type, description and lease bounds, and
\* returns what the server answered; on a path that is mounted it returns an
\* error and the mounts stay as they were, and on success the path is
\* mounted with the caller's configuration.
C15_MountPassThrough ==
    [][last'.op = "Mount" =>
          /\ Len(last'.calls) = 1
          /\ last'.calls[1].prim = "Mount"
          /\ last'.calls[1].path = last'.args[1]
          /\ last'.calls[1].data = Fields(AskedConfig(last'.args))
          /\ last'.status = "returned" /\ last'.err = last'.resp.err
          /\ last'.args[1] \in DOMAIN mounts => (last'.err # Nil /\ mounts' = mounts)
          /\ last'.err = Nil =>
                /\ last'.args[1] \notin DOMAIN mounts
                /\ DOMAIN mounts' = DOMAIN mounts \cup {last'.args[1]}
                /\ mounts'[last'.args[1]] = AskedConfig(last'.args)
          /\ last'.err # Nil => mounts' = mounts]_vars

\* A Mount with lease bounds on a path that is already mounted is refused by
\* the server.
C15_Witness ==
    /\ last.op = "Mount" /\ last.args[1] = "pki/" /\ last.args[4] = "1h"
    /\ last.resp.mode = "ok" /\ last.err = "existing mount at pki/"
    /\ mounts["pki/"].Type = "cubbyhole"

\* C16: CreateRole sends one write and no read; the write goes to
\* pki/roles/<name> with allowed_domains set to domains and allow_subdomains
\* set to the string "true" or "false" that spells subdomains, and nothing
\* else; the secret and the error of the write are returned as they came, no
\* secret when the write failed.
C16_CreateRoleWrite ==
    last.op = "CreateRole" =>
        LET w == last.calls[Len(last.calls)] IN
        /\ Cardinality(CallsOf("Write")) = 1 /\ CallsOf("Read") = {}
        /\ w.prim = "Write"
        /\ w.path = "pki/roles/" \o last.args[1]
        /\ DOMAIN w.data = {"allowed_domains", "allow_subdomains"}
        /\ w.data["allowed_domains"] = [t |-> "string", v |-> AskedDomains]
        /\ w.data["allow_subdomains"] =
              [t |-> "string", v |-> IF AskedSubdomains THEN "true" ELSE "false"]
        /\ last.status = "returned"
        /\ last.out = last.resp.secret /\ last.err = last.resp.err
        /\ last.resp.err # Nil => last.out = NilSecret
        /\ (last.resp.mode = "ok" /\ last.err = Nil) => store[w.path] = w.data

\* A role without subdomains is stored with the string "false".
C16_Witness ==
    /\ last.op = "CreateRole" /\ last.err = Nil
    /\ last.args = <<"foo", "bar.com", "false">>
    /\ "pki/roles/foo" \in DOMAIN store
    /\ store["pki/roles/foo"]["allow_subdomains"] = [t |-> "string", v |-> "false"]
    /\ store["pki/roles/foo"]["allowed_domains"] = [t |-> "string", v |-> "bar.com"]

\* The calls of the primitive prim among calls.
PrimCalls(calls, prim) == {i \in DOMAIN calls : calls[i].prim = prim}

\* C17: a WriteToCubbyhole or WriteMount whose client cannot be created
\* returns NewClient's error, has bound no token and sent no write, and the
\* server holds what it held; one whose write fails returns the write's
\* error; it returns nil exactly when the client was created and the write
\* succeeded.
C17_WriteErrors ==
    [][last'.op \in {"WriteToCubbyhole", "WriteMount"} =>
          /\ last'.status = "returned"
          /\ last'.resp.mode = "client" =>
                /\ last'.err # Nil /\ last'.err = last'.resp.err
                /\ PrimCalls(last'.calls, "SetToken") = {}
                /\ PrimCalls(last'.calls, "Write") = {}
                /\ store' = store /\ uses' = uses
          /\ last'.resp.mode # "client" =>
                /\ Cardinality(PrimCalls(last'.calls, "SetToken")) = 1
                /\ Cardinality(PrimCalls(last'.calls, "Write")) = 1
                /\ last'.err = last'.resp.err
          /\ last'.resp.err # Nil => store' = store
          /\ (last'.err = Nil) <=>
                (last'.resp.mode # "client" /\ last'.resp.err = Nil)]_vars

\* A WriteMount whose client could not be created, on a server that holds a
\* secret at the path.
C17_Witness ==
    /\ last.op = "WriteMount" /\ last.resp.mode = "client"
    /\ last.err = "client error" /\ Len(last.calls) = 1
    /\ "secret/foo" \in DOMAIN store
    /\ store["secret/foo"] = [k \in {"test"} |-> Str("value")]

\* Everything a ReadFromCubbyhole(token) can return on the server as it is.
ReadOutcomes(token) ==
    {ReadFromCubbyhole(nc, rd) :
        nc \in {c \in NewClientResults : c.err = Nil},
        rd \in ReadResults(token, CubbyholePath(token))}

\* C18: a WriteToCubbyhole made with one credential changes nothing of what
\* a ReadFromCubbyhole with any other credential can return; and a
\* ReadFromCubbyhole reads the path of its own credential only, returning
\* what is stored there when the server answers from its store.
C18_Isolation ==
    [][/\ last'.op = "WriteToCubbyhole" =>
             \A c2 \in Tokens \ {last'.args[1]} :
                 /\ ReadOutcomes(c2)' = ReadOutcomes(c2)
                 /\ (CubbyholePath(c2) \in DOMAIN store') = (CubbyholePath(c2) \in DOMAIN store)
                 /\ CubbyholePath(c2) \in DOMAIN store =>
                        store'[CubbyholePath(c2)] = store[CubbyholePath(c2)]
       /\ last'.op = "ReadFromCubbyhole" =>
             /\ \A i \in PrimCalls(last'.calls, "Read") :
                    last'.calls[i].path = "cubbyhole/" \o last'.args[1]
             /\ (last'.resp.mode = "ok" /\ last'.err = Nil) =>
                    /\ ("cubbyhole/" \o last'.args[1]) \in DOMAIN store
                    /\ last'.ret = store["cubbyhole/" \o last'.args[1]]["irods-config"]]_vars

\* A write with a child token next to the secret of the parent token.
C18_Witness ==
    /\ last.op = "WriteToCubbyhole" /\ last.args = <<"tok1", "payload">>
    /\ last.err = Nil
    /\ {"cubbyhole/root", "cubbyhole/tok1"} \subseteq DOMAIN store
    /\ store["cubbyhole/root"]["irods-config"] = Str("foo")
    /\ store["cubbyhole/tok1"]["irods-config"] = Str("payload")

C20_GeneratePassThrough ==
    last.op = "GeneratePKICert" =>
        LET w == last.calls[Len(last.calls)] IN
        /\ Cardinality(CallsOf("Write")) = 1
        /\ \A prim \in Primitives \ {"Write"} : CallsOf(prim) = {}
        /\ w.prim = "Write" /\ w.tok = RootToken
        /\ w.path = "pki/issue/" \o last.args[1]
        /\ DOMAIN w.data = {"common_name"}
        /\ w.data["common_name"] = [t |-> "string", v |-> last.args[2]]
        /\ last.status = "returned"
        /\ last.out = last.resp.secret /\ last.err = last.resp.err

\* The pki backend issued a certificate and GeneratePKICert returned it.
C20_Witness ==
    /\ last.op = "GeneratePKICert" /\ last.err = Nil /\ certs >= 1
    /\ ~last.out.isNil /\ last.out.hasData
    /\ last.out.data["common_name"] = Str("test.example.com")

\* C21: RevokePKICert sends one revoke request and no other request, for the
\* identifier it was given, through the stored client, and returns the error
\* of the request as it came, nil included.
C21_RevokePassThrough ==
    last.op = "RevokePKICert" =>
        LET rv == last.calls[Len(last.calls)] IN
        /\ Cardinality(CallsOf("Revoke")) = 1
        /\ \A prim \in Primitives \ {"Revoke"} : CallsOf(prim) = {}
        /\ rv.prim = "Revoke" /\ rv.path = last.args[1]
        /\ rv.tok = RootToken
        /\ \E j \in 1..(Len(last.calls) - 1) : last.calls[j].prim = "Client"
        /\ CallsOf("SetToken") = {}
        /\ last.status = "returned" /\ last.err = last.resp.err

\* The server knows no certificate of the identifier and says so.
C21_Witness ==
    /\ last.op = "RevokePKICert" /\ last.args = <<"foo">>
    /\ last.resp.mode = "ok" /\ last.err = "invalid serial foo"

\* The map a ReadMount returned: none, or the map itself.
ReturnedNoMap == last.out.isNil
ReturnedMap(d) == ~last.out.isNil /\ last.out.hasData /\ last.out.data = d

\* C22: ReadMount returns the whole data map of the secret and a nil error
\* when its client was created, the read succeeded and the secret has data;
\* it returns no map and an error when the client creation fails (and then
\* it sends no read), when the read fails, when there is no secret and when
\* the secret has no data.
C22_ReadMountResult ==
    last.op = "ReadMount" =>
        LET r == last.resp
            good == r.mode # "client" /\ r.err = Nil /\ ~r.secret.isNil /\ r.secret.hasData
        IN
        /\ last.status = "returned"
        /\ good => (ReturnedMap(r.secret.data) /\ last.err = Nil)
        /\ ~good => (ReturnedNoMap /\ last.err # Nil)
        /\ r.mode = "client" => (CallsOf("Read") = {} /\ last.err = r.err)
        /\ r.mode # "client" => Cardinality(CallsOf("Read")) = 1
        /\ (r.mode # "client" /\ r.err # Nil) => last.err = r.err

\* ReadMount returns a map that was written with a key of the caller's own.
C22_Witness ==
    /\ last.op = "ReadMount" /\ last.resp.mode = "ok" /\ last.err = Nil
    /\ ReturnedMap([k \in {"test"} |-> Str("value")])

\* The last operation sent request i to the path of a scoped secret.
ScopedCall(i) == i \in DataCalls /\ HasPrefix(last.calls[i].path, "cubbyhole/")

\* C23: every write and read sent to the path of a scoped secret is sent by
\* a client bound to the credential that the path ends with.
C23_PathMatchesCredential ==
    \A i \in DOMAIN last.calls :
        ScopedCall(i) => last.calls[i].path = "cubbyhole/" \o last.calls[i].tok

\* What C23 says, of WriteToCubbyhole and ReadFromCubbyhole alone.
C23_PathMatchesCredentialCubbyhole ==
    last.op \in {"WriteToCubbyhole", "ReadFromCubbyhole"} =>
        /\ C23_PathMatchesCredential
        /\ \A i \in DataCalls : ScopedCall(i) /\ last.calls[i].tok = last.args[1]

\* The last operation is a HasRole that the server answered with the role
\* data, as it was written, of a CreateRole(name, domains, subdomains).
ReadsRoleCreatedWith(domains, subdomains) ==
    /\ last.op = "HasRole"
    /\ last.resp.mode = "ok" /\ RoleAnswered
    /\ RolePath(last.args[1]) \in DOMAIN store
    /\ store[RolePath(last.args[1])] = RoleData(domains, subdomains)
    /\ RoleDataRead = RoleData(domains, subdomains)

\* C24: once CreateRole(name, domains, subdomains) has succeeded and the
\* server returns the role data as written, HasRole(name, domains,
\* subdomains) returns (true, nil), for both values of subdomains, and
\* HasRole(name, domains, not subdomains) returns (false, nil).
C24_CreateThenCheck ==
    /\ ReadsRoleCreatedWith(AskedDomains, AskedSubdomains) =>
          (last.status = "returned" /\ last.ret = Bool(TRUE) /\ last.err = Nil)
    /\ ReadsRoleCreatedWith(AskedDomains, ~AskedSubdomains) =>
          (last.status = "returned" /\ last.ret = Bool(FALSE) /\ last.err = Nil)

\* What C24 says, of the HasRole of vaulter.go alone.
C24_CreateThenCheckVaulter == last.rev # "main.go" => C24_CreateThenCheck

-----------------------------------------------------------------------------
(* The check-then-mount sequence of main, run by callers at the same time. *)

\* The path the server is asked to mount: "cubbyhole/" by MountCubbyhole,
\* "/irods-configs" by App.MountCubbyhole.
SetupMountPath(rev) ==
    IF rev = "part_001" THEN "/irods-configs" ELSE "cubbyhole/"

\* IsCubbyholeMounted, on the answer lm of ListMounts: the path it looks for
\* is "cubbyhole/" in every revision.
IsCubbyholeMounted(lm) == IsMounted(lm, "cubbyhole/")

\* MountCubbyhole, on the answer mr of Mount.
MountCubbyhole(mr) == Return(Null, mr.err)

\* App.MountCubbyhole, on the answer nc of NewVaultClient and mr of Mount.
AppMountCubbyhole(nc, mr) ==
    IF nc.err # Nil THEN Return(Null, nc.err) ELSE Return(Null, mr.err)

\* main: the mount is asked for when the check returned no error and false.
MainMounts(checked) == checked.err = Nil /\ checked.ret = Bool(FALSE)

\* main ends at an error (log.Fatal).
MainPc(res, next) ==
    IF res.err = Nil /\ res.status = "returned" THEN next ELSE "failed"

\* p starts the sequence, or starts it again after a run has ended; the
\* revision is chosen at the first start: the functions of vaulter.go
\* (cubbyhole.go has the same ones) or the methods of App.
SetupStart(p) ==
    /\ setup[p].pc \in {"idle", "done", "failed"}
    /\ \E rev \in {"vaulter.go", "part_001"} :
           /\ setup[p].pc # "idle" => rev = setup[p].rev
           /\ setup' = [setup EXCEPT ![p] =
                  [NotStarted EXCEPT !.pc = "check", !.rev = rev,
                      !.okBefore = setup[p].okBefore \/ setup[p].pc = "done"]]
    /\ UNCHANGED <<mounts, uses, issued, store, certs, last, written, scn, conc, api>>

\* p calls IsCubbyholeMounted.
SetupCheck(p) ==
    /\ setup[p].pc = "check"
    /\ \E lm \in ListMountsResults :
           LET res == IsCubbyholeMounted(lm) IN
           /\ last' = Done("IsCubbyholeMounted", setup[p].rev, <<>>, res,
                           <<Call("ListMounts", RootToken, "", NoData, 0)>>,
                           [secret |-> NilSecret, err |-> lm.err,
                            mode |-> IF lm.err = Nil THEN "ok" ELSE "fail"])
           /\ setup' = [setup EXCEPT ![p] =
                  [@ EXCEPT !.checked = [ret |-> res.ret, err |-> res.err],
                            !.clean = (lm.err = Nil),
                            !.pc = IF MainMounts(res) THEN "mount"
                                   ELSE MainPc(res, "done")]]
    /\ UNCHANGED <<mounts, uses, issued, store, certs, written, scn, conc, api>>

\* p calls MountCubbyhole.
SetupMount(p) ==
    /\ setup[p].pc = "mount"
    /\ LET rev == setup[p].rev
           path == SetupMountPath(rev)
           mi == MountInput(CubbyholeConfig)
       IN \E nc \in IF rev = "part_001" THEN NewClientResults
                     ELSE {[err |-> Nil, tok |-> RootToken]} :
          IF nc.err # Nil
          THEN /\ last' = Done("MountCubbyhole", rev, <<>>,
                               AppMountCubbyhole(nc, [err |-> Nil]),
                               <<Call("NewClient", NoToken, "", NoData, 0)>>,
                               ClientFailure(nc))
               /\ setup' = [setup EXCEPT ![p] =
                      [@ EXCEPT !.mountErr = nc.err, !.pc = "failed"]]
               /\ UNCHANGED mounts
          ELSE \E mr \in MountResults(path, mi) :
               LET res == IF rev = "part_001" THEN AppMountCubbyhole(nc, mr)
                          ELSE MountCubbyhole(mr) IN
               /\ mounts' = mr.mounts
               /\ last' = Done("MountCubbyhole", rev, <<>>, res,
                               <<Call("Mount", RootToken, path, Fields(mi), 0)>>,
                               [secret |-> NilSecret, err |-> mr.err, mode |-> mr.mode])
               /\ setup' = [setup EXCEPT ![p] =
                      [@ EXCEPT !.sent = 1, !.mountErr = res.err,
                                !.clean = (@ /\ mr.mode = "ok"),
                                !.pc = MainPc(res, "done")]]
    /\ UNCHANGED <<uses, issued, store, certs, written, scn, conc, api>>

NextSetup ==
    \/ \E p \in Callers : SetupStart(p)
    \/ \E p \in Callers : SetupCheck(p)
    \/ \E p \in Callers : SetupMount(p)
SpecSetup == Init /\ [][NextSetup]_vars

\* The run of caller p has had its check answered.
Checked(p) == setup[p].pc \in {"mount", "done", "failed"}

\* What C25 says of the runs of caller p.
IdempotentSetup(p) ==
    /\ setup[p].sent > 0 =>
           setup[p].checked = [ret |-> Bool(FALSE), err |-> Nil]
    /\ setup[p].okBefore =>
           /\ setup[p].sent = 0
           /\ (Checked(p) /\ setup[p].checked.err = Nil) =>
                  setup[p].checked.ret = Bool(TRUE)

\* C25: in main's check-then-mount sequence the mount is requested only when
\* IsCubbyholeMounted returned (false, nil); once a run of the sequence has
\* completed without error, IsCubbyholeMounted returns true and every later
\* run of the sequence by the same caller sends no mount request.
C25_IdempotentSetup == \A p \in Callers : IdempotentSetup(p)

\* What C25 says, of the callers running the functions of vaulter.go.
C25_IdempotentSetupVaulter ==
    \A p \in Callers : setup[p].rev = "vaulter.go" => IdempotentSetup(p)

\* The callers whose run has sent a mount request for "cubbyhole/".
CubbyholeMounters ==
    {p \in Callers : setup[p].sent > 0 /\ SetupMountPath(setup[p].rev) = "cubbyhole/"}

\* C26: when two callers run the check-then-mount sequence of vaulter.go at
\* the same time against a server that answers every request by its own
\* rules, at most one mount request for "cubbyhole/" is sent in total and
\* neither sequence ends with a mount error.
C26_OneMountRequest ==
    (\A p \in Callers : setup[p].rev = "vaulter.go" /\ setup[p].clean) =>
        /\ Cardinality(CubbyholeMounters) <= 1
        /\ \A p \in Callers : setup[p].mountErr = Nil

\* What C26 says, of a caller whose run does not overlap a mount request of
\* the other caller: the other has not sent one, or had sent it before this
\* caller's check.
C26_OneMountRequestInTurn ==
    \A p \in Callers :
        (setup[p].rev = "vaulter.go" /\ setup[p].clean /\ setup[p].okBefore)
            => (setup[p].sent = 0 /\ setup[p].mountErr = Nil)

\* The last operation ended by returning (value, nil) or ("", error).
ReturnedValueOrError ==
    /\ last.status = "returned"
    /\ last.ret.t = "string"
    /\ last.err # Nil => last.ret = Str("")

\* C27: ReadFromCubbyhole is total over the server's responses: for every
\* secret the read can return, one with an irods-config value that is not a
\* string included, it returns (value, nil) or ("", error) and never ends
\* abnormally.
C27_ReadTotal == last.op = "ReadFromCubbyhole" => ReturnedValueOrError

\* What C27 says, of the reads answered with anything but an irods-config
\* value of another type than string.
C27_ReadTotalOnStrings ==
    (/\ last.op = "ReadFromCubbyhole"
     /\ ~(/\ ~last.resp.secret.isNil /\ last.resp.secret.hasData
           /\ Index(last.resp.secret.data, ConfigKey).t \notin {"string", "null"}))
        => ReturnedValueOrError

\* C28: ChildToken is total over the results of CreateToken: for no secret
\* with a nil error it returns the empty credential and an error; it never
\* ends abnormally and never returns an empty credential with a nil error.
C28_ChildTokenTotal ==
    last.op = "ChildToken" =>
        /\ last.status = "returned"
        /\ (last.resp.secret.isNil /\ last.resp.err = Nil) =>
               (last.ret = Str("") /\ last.err # Nil)
        /\ ~(last.ret = Str("") /\ last.err = Nil)

\* What C28 says, of the calls in which CreateToken returned a secret or an
\* error.
C28_ChildTokenTotalWithSecret ==
    (last.op = "ChildToken" /\ ~(last.resp.secret.isNil /\ last.resp.err = Nil)) =>
        /\ last.status = "returned"
        /\ ~(last.ret = Str("") /\ last.err = Nil)

-----------------------------------------------------------------------------
(* InitAPI and the client and config stored in the VaultAPI. *)

\* The VaultAPIConfig values the callers pass.
VaultAPIConfigs ==
    [Scheme : {"http", "https"}, Host : {"vault"}, Port : {"8200"},
     CACert : {"", "ca.pem"}, ClientCert : {""}, ClientKey : {""}]

\* The vault.TLSConfig InitAPI builds from cfg.
TLSConfig(cfg) ==
    [CACert |-> cfg.CACert, ClientCert |-> cfg.ClientCert, ClientKey |-> cfg.ClientKey]

\* fmt.Sprintf("%s://%s:%s", cfg.Scheme, cfg.Host, cfg.Port)
Address(cfg) == cfg.Scheme \o "://" \o cfg.Host \o ":" \o cfg.Port

\* vault.DefaultConfig(): the default address and no TLS settings yet.
DefaultConfig ==
    [isNil |-> FALSE, Address |-> "https://127.0.0.1:8200",
     tls |-> [CACert |-> "<unset>", ClientCert |-> "<unset>", ClientKey |-> "<unset>"]]

\* What ConfigureTLS can answer: the config now carries the TLS settings, or
\* an error.
ConfigureTLSResults(apicfg, t) ==
    {[err |-> Nil, cfg |-> [apicfg EXCEPT !.tls = t]]}
    \cup {[err |-> e, cfg |-> apicfg] : e \in {"tls error"}}

\* The client NewClient built from apicfg, as answered by nc.
ClientOf(apicfg, nc) == [isNil |-> FALSE, tok |-> nc.tok, cfg |-> apicfg]

\* InitAPI that stores the config as soon as TLS is configured.
InitAPIConfigFirst(v, cfg, token, tl, nc) ==
    LET apicfg == [DefaultConfig EXCEPT !.Address = Address(cfg)]
        head == <<Call("DefaultConfig", NoToken, "", NoData, 0),
                  Call("ConfigureTLS", NoToken, apicfg.Address, NoData, 0)>>
    IN IF tl.err # Nil
       THEN [api |-> v, err |-> tl.err, calls |-> head, mode |-> "tls"]
       ELSE IF nc.err # Nil
       THEN [api |-> [v EXCEPT !.cfg = tl.cfg], err |-> nc.err,
             calls |-> head \o <<Call("SetConfig", NoToken, tl.cfg.Address, NoData, 0),
                                 Call("NewClient", NoToken, tl.cfg.Address, NoData, 0)>>,
             mode |-> "client"]
       ELSE LET client == SetToken(ClientOf(tl.cfg, nc), token) IN
            [api |-> [client |-> client, cfg |-> tl.cfg], err |-> Nil,
             calls |-> head \o <<Call("SetConfig", NoToken, tl.cfg.Address, NoData, 0),
                                 Call("NewClient", NoToken, tl.cfg.Address, NoData, 0),
                                 Call("SetToken", token, "", NoData, 0),
                                 Call("SetClient", client.tok, client.cfg.Address, NoData, 0)>>,
             mode |-> "none"]

\* InitAPI(api, cfg, token), on the answers tl of ConfigureTLS and nc of
\* NewClient.  v is the VaultAPI before the call.
InitAPI(v, cfg, token, tl, nc) ==
    LET apicfg == [DefaultConfig EXCEPT !.Address = Address(cfg)]
        head == <<Call("DefaultConfig", NoToken, "", NoData, 0),
                  Call("ConfigureTLS", NoToken, apicfg.Address, NoData, 0)>>
    IN IF tl.err # Nil
       THEN [api |-> v, err |-> tl.err, calls |-> head, mode |-> "tls"]
       ELSE IF nc.err # Nil
       THEN [api |-> v, err |-> nc.err,
             calls |-> head \o <<Call("NewClient", NoToken, tl.cfg.Address, NoData, 0)>>,
             mode |-> "client"]
       ELSE LET client == SetToken(ClientOf(tl.cfg, nc), token) IN
            [api |-> [client |-> client, cfg |-> tl.cfg], err |-> Nil,
             calls |-> head \o <<Call("NewClient", NoToken, tl.cfg.Address, NoData, 0),
                                 Call("SetToken", token, "", NoData, 0),
                                 Call("SetClient", client.tok, client.cfg.Address, NoData, 0),
                                 Call("SetConfig", NoToken, tl.cfg.Address, NoData, 0)>>,
             mode |-> "none"]

\* A *vault.Config as the map of its fields.
ConfigFields(c) ==
    Fields([Address |-> c.Address, CACert |-> c.tls.CACert,
            ClientCert |-> c.tls.ClientCert, ClientKey |-> c.tls.ClientKey])

\* VaultAPI.GetConfig
GetConfig(v) ==
    IF v.cfg.isNil THEN ReturnMap(FALSE, EmptyMap, Nil)
    ELSE ReturnMap(TRUE, ConfigFields(v.cfg), Nil)

\* InitAPI(api, cfg, token)
CallInitAPI(cfg, token) ==
    LET apicfg == [DefaultConfig EXCEPT !.Address = Address(cfg)] IN
    \E tl \in ConfigureTLSResults(apicfg, TLSConfig(cfg)), nc \in NewClientResults :
        LET r == InitAPI(api, cfg, token, tl, nc) IN
        /\ api' = r.api
        /\ last' = Done("InitAPI", "vaulter.go", <<Address(cfg), token>>,
                        Return(Null, r.err), r.calls,
                        [secret |-> NilSecret, err |-> r.err, mode |-> r.mode])
        /\ UNCHANGED <<mounts, uses, issued, store, certs, written, scn, conc, setup>>

\* api.GetConfig()
CallGetConfig ==
    /\ last' = Done("GetConfig", "vaulter.go", <<>>, GetConfig(api), <<>>, NoResp)
    /\ UNCHANGED <<mounts, uses, issued, store, certs, written, scn, conc, setup, api>>

NextInit ==
    \/ \E cfg \in VaultAPIConfigs, token \in {RootToken, TokenName(1)} :
           CallInitAPI(cfg, token)
    \/ CallGetConfig
SpecInit == Init /\ [][NextInit]_vars

\* The first call of the primitive prim among calls, 0 when there is none.
FirstCall(calls, prim) ==
    IF PrimCalls(calls, prim) = {} THEN 0
    ELSE CHOOSE i \in PrimCalls(calls, prim) : \A j \in PrimCalls(calls, prim) : i <= j

\* C30: an InitAPI whose TLS configuration or client creation fails leaves
\* the stored client and the stored config as they were, and creates no
\* client after a TLS failure; one that succeeds binds the token to the new
\* client before it stores it and stores the client and the config, so that
\* GetConfig returns the config the stored client was built from.
C30_InitAPI ==
    [][/\ last'.op = "InitAPI" =>
            /\ last'.status = "returned"
            /\ last'.resp.mode \in {"tls", "client"} =>
                   (last'.err # Nil /\ api' = api)
            /\ last'.resp.mode = "tls" => PrimCalls(last'.calls, "NewClient") = {}
            /\ last'.resp.mode \notin {"tls", "client"} =>
                   /\ last'.err = Nil
                   /\ ~api'.client.isNil
                   /\ api'.client.tok = last'.args[2]
                   /\ api'.client.cfg.Address = last'.args[1]
                   /\ api'.cfg = api'.client.cfg
                   /\ FirstCall(last'.calls, "SetToken") > 0
                   /\ FirstCall(last'.calls, "SetToken")
                          < FirstCall(last'.calls, "SetClient")
                   /\ FirstCall(last'.calls, "SetConfig") > 0
       /\ (last'.op = "GetConfig" /\ ~api.client.isNil) =>
            /\ ~last'.out.isNil
            /\ last'.out.data = ConfigFields(api.client.cfg)]_vars

\* An InitAPI for another address failed at the client creation: the
\* VaultAPI still holds the client and the config of the earlier call.
C30_Witness ==
    /\ last.op = "InitAPI" /\ last.resp.mode = "client" /\ last.err # Nil
    /\ ~api.client.isNil
    /\ api.cfg = api.client.cfg
    /\ api.cfg.Address # last.args[1]

====
